---- MODULE Spec2Model ----
(***************************************************************************)
(* fastapi-versioning: VersionedFastAPI composes one collection of routes, *)
(* each optionally tagged with a (major, minor) version, into one          *)
(* sub-application per version, an optional /latest alias, an optional     *)
(* unprefixed alias, and a directory document of placeholder entries.      *)
(*                                                                         *)
(* Modelling conventions                                                   *)
(*  - a route object is identified by its index in app.routes;             *)
(*  - a dict is a sequence of [key, route] entries in insertion order      *)
(*    (overwriting a key keeps its position, as CPython dicts do);         *)
(*  - a URL path is a sequence of segments, "/v1_0/greet" being            *)
(*    <<"/v1_0", "/greet">>;                                               *)
(*  - route.methods is a set: its iteration order is chosen                *)
(*    nondeterministically each time the code iterates it.                 *)
(***************************************************************************)
EXTENDS Integers, Sequences, FiniteSets, TLC

\* ------------------------------------------------------------------ bounds
MaxRoutes == 2      \* number of routes registered on the application
MaxComputed == 2    \* number of directory documents the generator may build
MaxTags == 2        \* length of a tag catalog given to the tag filter
MaxTagRoutes == 2   \* length of a route list given to the tag filter

\* Python's None: an absent version is the empty tuple, an optional object is
\* <<>> when absent and <<object>> when present.
None == <<>>
Some(x) == <<x>>

Paths == {"/greet", "/items"}
Methods == {"GET", "PUT"}
MethodSets == {{"GET"}, {"PUT"}, {"GET", "PUT"}}
TagNames == {"users", "items", "Versions"}
ApiVersions == {None, <<1, 2>>, <<2, 0>>}
DefaultVersions == {<<1, 0>>, <<1, 2>>}
RedirectVersions == {None, <<1, 2>>}
TagCatalogs == {None, Some(<<"users">>)}

\* --------------------------------------------------------- pure functions

\* Python's tuple comparison, used by sorted() on the version keys.
VersionLess(a, b) == a[1] < b[1] \/ (a[1] = b[1] /\ a[2] < b[2])

\* Mutant of Sorted: the versions ordered by minor before major.
RECURSIVE SortedByMinor(_)
SortedByMinor(S) ==
    IF S = {} THEN <<>>
    ELSE LET m == CHOOSE x \in S : \A y \in S \ {x} :
                      x[2] < y[2] \/ (x[2] = y[2] /\ x[1] < y[1])
         IN <<m>> \o SortedByMinor(S \ {m})

\* sorted(keys): the ascending sequence of a set of versions.
RECURSIVE Sorted(_)
Sorted(S) ==
    IF S = {} THEN <<>>
    ELSE LET m == CHOOSE x \in S : \A y \in S \ {x} : VersionLess(x, y)
         IN <<m>> \o Sorted(S \ {m})

\* str.format(major=, minor=) on a template given as a sequence of pieces.
RECURSIVE Format(_, _, _)
Format(template, major, minor) ==
    IF template = <<>> THEN ""
    ELSE LET piece == Head(template)
             text == IF piece = "{major}" THEN ToString(major)
                     ELSE IF piece = "{minor}" THEN ToString(minor)
                     ELSE piece
         IN text \o Format(Tail(template), major, minor)

version_format == <<"{major}", ".", "{minor}">>
prefix_format == <<"/v", "{major}", "_", "{minor}">>

OPENAPI_TAGS_VERSIONED_ENDPOINTS == <<"Redirects", "Versions", "Documentations">>

\* Mutant of version_to_route: the _api_version attribute is ignored.
version_to_route_default(route, default) == default

\* version(major, minor) attaches _api_version; version_to_route reads it with
\* the default as fallback.
version_to_route(route, default) ==
    IF route.api_version = None THEN default ELSE route.api_version

\* x in route.tags
InTags(name, tags) == \E i \in 1..Len(tags) : tags[i] = name

\* The inner loop of remove_non_present_openapi_tags for one tag: the tag is
\* appended once per route that carries it. A route is given by its tags
\* attribute: None when it has none (hasattr fails), Some(list) otherwise.
RECURSIVE TagCopies(_, _)
TagCopies(tag, routeTags) ==
    IF routeTags = <<>> THEN <<>>
    ELSE (IF Head(routeTags) # None /\ InTags(tag, Head(routeTags)[1]) THEN <<tag>> ELSE <<>>)
         \o TagCopies(tag, Tail(routeTags))

\* remove_non_present_openapi_tags(tags, routes)
RECURSIVE remove_non_present_openapi_tags(_, _)
remove_non_present_openapi_tags(tags, routeTags) ==
    IF tags = <<>> THEN <<>>
    ELSE TagCopies(Head(tags), routeTags)
         \o remove_non_present_openapi_tags(Tail(tags), routeTags)

\* Mutant of doc_endpoint_response: the error is raised as a server error.
doc_endpoint_response_500 ==
    [status |-> 500, handler |-> "doc_endpoint_response", route |-> 0,
     detail |-> "Endpoint only exits for documentation purposes. It has no logic."]

\* doc_endpoint_response(): raises HTTPException(status_code=400, detail=...).
doc_endpoint_response ==
    [status |-> 400, handler |-> "doc_endpoint_response", route |-> 0,
     detail |-> "Endpoint only exits for documentation purposes. It has no logic."]

\* ------------------------------------------------------------ dict helpers

\* defaultdict(list): mapping[v].append(i)
BucketAppend(mapping, v, i) ==
    IF v \in DOMAIN mapping THEN [mapping EXCEPT ![v] = Append(@, i)]
    ELSE mapping @@ (v :> <<i>>)

\* for version, route in version_routes: version_route_mapping[version].append(route)
RECURSIVE GroupRoutes(_, _, _, _)
GroupRoutes(routes, default, i, mapping) ==
    IF i > Len(routes) THEN mapping
    ELSE GroupRoutes(routes, default, i + 1,
                     BucketAppend(mapping, version_to_route(routes[i], default), i))

\* unique_routes[key] = route : overwrite in place, or insert at the end.
DictSet(d, key, route) ==
    IF \E i \in 1..Len(d) : d[i].key = key
    THEN [i \in 1..Len(d) |-> IF d[i].key = key THEN [key |-> key, route |-> route] ELSE d[i]]
    ELSE Append(d, [key |-> key, route |-> route])

\* route.path + "|" + method
RouteKey(path, method) == path \o "|" \o method

\* for method in route.methods: unique_routes[route.path + "|" + method] = route
\* with the methods iterated in the order `order`.
RECURSIVE WriteMethods(_, _, _, _)
WriteMethods(d, path, order, id) ==
    IF order = <<>> THEN d
    ELSE WriteMethods(DictSet(d, RouteKey(path, Head(order)), id), path, Tail(order), id)

\* for route in version_route_mapping[version]: ... ; orders[id] is the iteration
\* order of the methods of route id.
RECURSIVE WriteBucket(_, _, _, _, _)
WriteBucket(d, routes, bucket, orders, j) ==
    IF j > Len(bucket) THEN d
    ELSE WriteBucket(WriteMethods(d, routes[bucket[j]].path, orders[bucket[j]], bucket[j]),
                     routes, bucket, orders, j + 1)

\* Mutant of Accumulate: unique_routes starts empty in every iteration.
AccumulateFresh(d, routes, bucket, orders) == WriteBucket(<<>>, routes, bucket, orders, 1)

\* unique_routes = {} before the loop over the versions, written by each
\* iteration on top of what the earlier iterations left.
Accumulate(d, routes, bucket, orders) == WriteBucket(d, routes, bucket, orders, 1)

\* unique_routes.values()
Values(d) == [i \in 1..Len(d) |-> d[i].route]

\* The iteration orders a set can have.
Orderings(S) ==
    {o \in [1..Cardinality(S) -> S] : \A i, j \in 1..Cardinality(S) : i # j => o[i] # o[j]}

\* ------------------------------------------------------------------ state

VARIABLES
    pc,                         \* "register", "done" (composed), "error" (composition raised)
    app_routes,                 \* app.routes: the registered route objects
    default_version,            \* parameters of VersionedFastAPI
    enable_latest,
    redirect_empty_to_version,
    openapi_tags_in,            \* the catalog as the caller passed it (None or Some(list))
    tags_metadata,              \* the caller's list object, as it is now
    openapi_tags,               \* the list the local name openapi_tags refers to
    version_route_mapping,      \* version -> bucket (sequence of route ids)
    versions,                   \* sorted(version_route_mapping.keys())
    unique_routes,              \* the accumulated dict
    parent_routes,              \* parent_app.router.routes: mounts and routes
    doc_endpoints,              \* the synthesized directory entries
    snapshot,                   \* history: version -> unique_routes after that version
    openapi_schema,             \* parent_app.openapi_schema (None or Some(document))
    computed,                   \* number of get_openapi calls made for the parent
    returned,                   \* the last call of parent_app.openapi: None, or
                                \* Some([doc, cached]) with the document it returned
                                \* and whether it came from parent_app.openapi_schema
    flt_tags,                   \* tag filter: the catalog given
    flt_routes,                 \* tag filter: the tags attributes of the routes given
    flt_out,                    \* tag filter: results of the successive applications
    response                    \* outcome of the last call of doc_endpoint_response

vars == <<pc, app_routes, default_version, enable_latest, redirect_empty_to_version,
          openapi_tags_in, tags_metadata, openapi_tags, version_route_mapping,
          versions, unique_routes, parent_routes, doc_endpoints,
          snapshot, openapi_schema, computed, returned,
          flt_tags, flt_routes, flt_out, response>>

config == <<default_version, enable_latest, redirect_empty_to_version, openapi_tags_in>>
build == <<version_route_mapping, versions, unique_routes, parent_routes,
           doc_endpoints, snapshot>>
serving == <<openapi_schema, computed, returned>>
pure == <<flt_tags, flt_routes, flt_out, response>>

\* The routes under /greet carry the tag "users", as in example/redirect/v1_0.py;
\* the routes under /items carry no tag.
PathTags(path) == IF path = "/greet" THEN <<"users">> ELSE <<>>

\* An APIRoute as registered by @router.get/put(path, tags=...) over @version(...).
Routes ==
    {[path |-> p, methods |-> ms, tags |-> PathTags(p), api_version |-> v] :
        p \in Paths, ms \in MethodSets, v \in ApiVersions}

\* The state before composition, with the given routes registered.
Fresh(routes) ==
    /\ pc = "register"
    /\ app_routes = routes
    /\ default_version = <<1, 0>>
    /\ enable_latest = FALSE
    /\ redirect_empty_to_version = None
    /\ openapi_tags_in = None
    /\ tags_metadata = None
    /\ openapi_tags = <<>>
    /\ version_route_mapping = <<>>
    /\ versions = <<>>
    /\ unique_routes = <<>>
    /\ parent_routes = <<>>
    /\ doc_endpoints = <<>>
    /\ snapshot = <<>>
    /\ openapi_schema = None
    /\ computed = 0
    /\ returned = None
    /\ response = None

Init ==
    /\ Fresh(<<>>)
    /\ flt_tags = <<>>
    /\ flt_routes = <<>>
    /\ flt_out = <<>>

\* ------------------------------------------------------------ composition

\* app.include_router(...): one more route on the application.
IncludeRoute ==
    /\ pc = "register"
    /\ Len(app_routes) < MaxRoutes
    /\ \E r \in Routes : app_routes' = Append(app_routes, r)
    /\ UNCHANGED <<pc, config, tags_metadata, openapi_tags, build, serving, pure>>

Prefix(v) == <<Format(prefix_format, v[1], v[2])>>
Semver(v) == Format(version_format, v[1], v[2])

TagsOf(routes, ids) == [i \in 1..Len(ids) |-> Some(routes[ids[i]].tags)]

\* parent_app.mount(prefix, versioned_app)
Mount(prefix, semver, ids, tags) ==
    [kind |-> "mount", prefix |-> prefix, version |-> semver, routes |-> ids,
     openapi_tags |-> tags, route |-> 0]

\* parent_app.router.routes.append(route)
Plain(id) ==
    [kind |-> "route", prefix |-> <<>>, version |-> "", routes |-> <<>>,
     openapi_tags |-> <<>>, route |-> id]

\* APIRoute(path, doc_endpoint_response, name=..., tags=[...])
DocEntry(path, name, tag) ==
    [path |-> path, endpoint |-> "doc_endpoint_response", name |-> name, tags |-> <<tag>>]

\* for route in unique_routes.values(): versioned_app.router.routes.append(route)
MountedRoutes(d) == Values(d)

\* Mutant of RedirectedRoutes: every route object is appended once only.
RECURSIVE Once(_)
Once(q) ==
    IF q = <<>> THEN <<>>
    ELSE LET rest == Once(SubSeq(q, 1, Len(q) - 1))
         IN IF \E i \in 1..Len(rest) : rest[i] = q[Len(q)] THEN rest
            ELSE Append(rest, q[Len(q)])

RedirectedRoutesOnce(d) == Once(Values(d))

\* for route in unique_routes.values(): parent_app.router.routes.append(route)
RedirectedRoutes(d) == Values(d)

VersionDocs(prefix, semver) ==
    << DocEntry(prefix \o <<"/openapi.json">>, semver, "Versions"),
       DocEntry(prefix \o <<"/docs">>, semver \o " Swagger", "Documentations"),
       DocEntry(prefix \o <<"/redoc">>, semver \o " Redoc", "Documentations") >>

\* The version left in the local `version` by the grouping loop (None: unbound).
LastGrouped(routes, default) ==
    IF routes = <<>> THEN None ELSE version_to_route(routes[Len(routes)], default)

\* The rest of an iteration of `for version in versions` once unique_routes is
\* written: the mount, the unprefixed routes, the directory entries.
Publish(st, v, d, routes, redirect_to, tags) ==
    LET prefix == Prefix(v)
        semver == Semver(v)
        redirect == redirect_to # None /\ redirect_to = v
        ids == MountedRoutes(d)
        red == RedirectedRoutes(d)
    IN [unique_routes |-> d,
        snapshot |-> st.snapshot @@ (v :> d),
        parent_routes |->
            Append(st.parent_routes,
                   Mount(prefix, semver, ids,
                         remove_non_present_openapi_tags(tags, TagsOf(routes, ids))))
            \o (IF redirect THEN [i \in 1..Len(red) |-> Plain(red[i])] ELSE <<>>),
        doc_endpoints |->
            st.doc_endpoints
            \o (IF redirect THEN <<DocEntry(<<"/*">>, "No Version", "Redirects")>> ELSE <<>>)
            \o VersionDocs(prefix, semver),
        version |-> v]

\* One iteration of `for version in versions`, on the locals st.
ProcessVersion(st, v, routes, mapping, orders, redirect_to, tags) ==
    CHOOSE next \in {Publish(st, v, d, routes, redirect_to, tags) :
                        d \in {Accumulate(st.unique_routes, routes, mapping[v], orders)}} : TRUE

\* for version in versions: ...
RECURSIVE VersionLoop(_, _, _, _, _, _, _, _)
VersionLoop(st, sorted, i, routes, mapping, orders, redirect_to, tags) ==
    IF i > Len(sorted) THEN st
    ELSE CHOOSE out \in
            {VersionLoop(next, sorted, i + 1, routes, mapping, orders, redirect_to, tags) :
                next \in {ProcessVersion(st, sorted[i], routes, mapping, orders, redirect_to, tags)}} :
            TRUE

\* if enable_latest: ... , on the locals st (st.version is bound).
PublishLatest(st, routes, tags) ==
    LET ids == MountedRoutes(st.unique_routes)
    IN [st EXCEPT
          !.parent_routes =
              Append(@, Mount(<<"/latest">>, Semver(st.version), ids,
                              remove_non_present_openapi_tags(tags, TagsOf(routes, ids)))),
          !.doc_endpoints = Append(@, DocEntry(<<"/latest", "/*">>, "Latest", "Redirects"))]

\* One iteration order for the methods of every route.
MethodOrders(routes) ==
    {o \in [1..Len(routes) -> UNION {Orderings(ms) : ms \in MethodSets}] :
        \A i \in 1..Len(routes) : o[i] \in Orderings(routes[i].methods)}

\* VersionedFastAPI(app, default_version=dv, enable_latest=el,
\* redirect_empty_to_version=rv, openapi_tags=cat): the whole call. It returns
\* the parent, or raises at `major, minor = version` when enable_latest is set
\* and no loop ever bound `version`.
VersionedFastAPI ==
    /\ pc = "register"
    /\ \E orders \in MethodOrders(app_routes) :
       \E dv \in DefaultVersions, el \in BOOLEAN, rv \in RedirectVersions, cat \in TagCatalogs :
        \* openapi_tags += ... extends the list object in place: the caller's
        \* list when one was passed, a fresh list otherwise.
        \E tags \in {(IF cat # None THEN cat[1] ELSE <<>>) \o OPENAPI_TAGS_VERSIONED_ENDPOINTS},
           mapping \in {GroupRoutes(app_routes, dv, 1, <<>>)} :
        \E sorted \in {Sorted(DOMAIN mapping)} :
        \E st \in {VersionLoop([unique_routes |-> <<>>, snapshot |-> <<>>,
                                parent_routes |-> <<>>, doc_endpoints |-> <<>>,
                                version |-> LastGrouped(app_routes, dv)],
                               sorted, 1, app_routes, mapping, orders, rv, tags)} :
        \E raises \in {el /\ st.version = None} :
        \E fin \in {IF el /\ ~raises THEN PublishLatest(st, app_routes, tags) ELSE st} :
           /\ default_version' = dv
           /\ enable_latest' = el
           /\ redirect_empty_to_version' = rv
           /\ openapi_tags_in' = cat
           /\ openapi_tags' = tags
           /\ tags_metadata' = IF cat # None THEN Some(tags) ELSE None
           /\ version_route_mapping' = mapping
           /\ versions' = sorted
           /\ unique_routes' = fin.unique_routes
           /\ snapshot' = fin.snapshot
           /\ parent_routes' = fin.parent_routes
           /\ doc_endpoints' = fin.doc_endpoints
           /\ pc' = IF raises THEN "error" ELSE "done"
    /\ UNCHANGED <<app_routes, serving, pure>>

\* ---------------------------------------------------------------- serving

\* Outcomes of a request.
RouteResponse(id) == [status |-> 200, handler |-> "route", route |-> id, detail |-> ""]
FrameworkDocs == [status |-> 200, handler |-> "framework_docs", route |-> 0, detail |-> ""]
NotFound == [status |-> 404, handler |-> "none", route |-> 0, detail |-> "Not Found"]
MethodNotAllowed ==
    [status |-> 405, handler |-> "none", route |-> 0, detail |-> "Method Not Allowed"]

\* The documentation routes every FastAPI(...) application is constructed with.
BuiltinDocs == {<<"/openapi.json">>, <<"/docs">>, <<"/redoc">>}

\* How a route appended to a router matches a request: the path and the method
\* (FULL), the path alone (PARTIAL), or nothing.
RouteMatch(routes, id, path, method) ==
    IF path # <<routes[id].path>> THEN "NONE"
    ELSE IF method \in routes[id].methods THEN "FULL" ELSE "PARTIAL"

\* A versioned_app serving a request: its own documentation routes come first,
\* then the appended routes in list order, the first full match winning.
HandleApp(routes, ids, path, method) ==
    IF path \in BuiltinDocs
    THEN IF method = "GET" THEN FrameworkDocs ELSE MethodNotAllowed
    ELSE LET full == {i \in 1..Len(ids) : RouteMatch(routes, ids[i], path, method) = "FULL"}
             part == {i \in 1..Len(ids) : RouteMatch(routes, ids[i], path, method) = "PARTIAL"}
         IN IF full # {}
            THEN RouteResponse(ids[CHOOSE i \in full : \A j \in full : i <= j])
            ELSE IF part # {} THEN MethodNotAllowed ELSE NotFound

\* How an entry of parent_app.router.routes matches a request.
ParentMatch(routes, entry, path, method) ==
    IF entry.kind = "mount"
    THEN IF Len(path) > Len(entry.prefix) /\ SubSeq(path, 1, Len(entry.prefix)) = entry.prefix
         THEN "FULL" ELSE "NONE"
    ELSE RouteMatch(routes, entry.route, path, method)

\* The parent application serving a request through parent_app.router.routes.
HandleParent(routes, proutes, path, method) ==
    LET full == {i \in 1..Len(proutes) : ParentMatch(routes, proutes[i], path, method) = "FULL"}
        part == {i \in 1..Len(proutes) : ParentMatch(routes, proutes[i], path, method) = "PARTIAL"}
    IN IF full # {}
       THEN LET e == proutes[CHOOSE i \in full : \A j \in full : i <= j]
            IN IF e.kind = "mount"
               THEN HandleApp(routes, e.routes,
                              SubSeq(path, Len(e.prefix) + 1, Len(path)), method)
               ELSE RouteResponse(e.route)
       ELSE IF part # {} THEN MethodNotAllowed ELSE NotFound

\* Mutant of SchemaCached: the stored document is never found.
SchemaNeverCached(schema) == FALSE

\* if parent_app.openapi_schema: return parent_app.openapi_schema
SchemaCached(schema) == schema # None

\* get_openapi(..., routes=doc_endpoints, tags=remove_non_present_openapi_tags(...));
\* id is the identity of the object this call creates.
GetOpenapi(id, entries, tags) ==
    [id |-> id, routes |-> entries,
     tags |-> remove_non_present_openapi_tags(tags, [i \in 1..Len(entries) |-> Some(entries[i].tags)])]

\* parent_app.openapi(), that is custom_openapi_for_parent_app().
CallOpenapi ==
    /\ pc = "done"
    /\ computed < MaxComputed
    /\ IF SchemaCached(openapi_schema)
       THEN /\ returned' = Some([doc |-> openapi_schema[1], cached |-> TRUE])
            /\ UNCHANGED <<openapi_schema, computed>>
       ELSE /\ computed' = computed + 1
            /\ openapi_schema' = Some(GetOpenapi(computed + 1, doc_endpoints, openapi_tags))
            /\ returned' = Some([doc |-> openapi_schema'[1], cached |-> FALSE])
    /\ UNCHANGED <<pc, app_routes, config, tags_metadata, openapi_tags, build, pure>>

\* What calling a directory entry's endpoint does.
Invoke(endpoint) ==
    IF endpoint = "doc_endpoint_response" THEN doc_endpoint_response
    ELSE [status |-> 200, handler |-> endpoint, route |-> 0, detail |-> ""]

\* Composition of any application.
Next ==
    \/ IncludeRoute
    \/ VersionedFastAPI

Spec == Init /\ [][Next]_vars

RECURSIVE SeqsUpTo(_, _)
SeqsUpTo(S, n) ==
    IF n = 0 THEN {<<>>}
    ELSE SeqsUpTo(S, n - 1) \cup {Append(q, x) : q \in {r \in SeqsUpTo(S, n - 1) : Len(r) = n - 1}, x \in S}

\* The routes of example/redirect: v1_0.py and v1_2.py.
ExampleRoutes ==
    { [path |-> "/greet", methods |-> {"GET"}, tags |-> <<"users">>, api_version |-> None],
      [path |-> "/greet", methods |-> {"GET"}, tags |-> <<>>, api_version |-> <<1, 2>>],
      [path |-> "/greet", methods |-> {"PUT"}, tags |-> <<>>, api_version |-> <<1, 2>>] }

\* An application made of routes of the example.
InitServe ==
    /\ \E routes \in SeqsUpTo(ExampleRoutes, MaxRoutes) : Fresh(routes)
    /\ flt_tags = <<>>
    /\ flt_routes = <<>>
    /\ flt_out = <<>>

\* Composition of an example application, and the parent's document generator.
NextServe ==
    \/ VersionedFastAPI
    \/ CallOpenapi

SpecServe == InitServe /\ [][NextServe]_vars

\* ------------------------------------------------- the functions on their own

\* The tags attribute of a route: absent, empty, one tag, two tags.
TagAttrs == {None, Some(<<>>), Some(<<"users">>), Some(<<"users", "items">>)}

InitPure ==
    /\ Fresh(<<>>)
    /\ flt_tags \in SeqsUpTo(TagNames, MaxTags)
    /\ flt_routes \in SeqsUpTo(TagAttrs, MaxTagRoutes)
    /\ flt_out = <<>>

main == <<pc, app_routes, config, tags_metadata, openapi_tags, build, serving>>

\* remove_non_present_openapi_tags applied to the catalog, then to its own result.
ApplyFilter ==
    /\ Len(flt_out) < 2
    /\ flt_out' = Append(flt_out,
                         remove_non_present_openapi_tags(
                             IF flt_out = <<>> THEN flt_tags ELSE flt_out[Len(flt_out)],
                             flt_routes))
    /\ UNCHANGED <<main, flt_tags, flt_routes, response>>

\* doc_endpoint_response() is called.
CallDocEndpoint ==
    /\ response = None
    /\ response' = Some(Invoke("doc_endpoint_response"))
    /\ UNCHANGED <<main, flt_tags, flt_routes, flt_out>>

NextPure ==
    \/ ApplyFilter
    \/ CallDocEndpoint

SpecPure == InitPure /\ [][NextPure]_vars

\* ------------------------------------------------------------- properties

Range(q) == {q[i] : i \in 1..Len(q)}
Entries(d) == Range(d)
Keys(d) == {d[i].key : i \in 1..Len(d)}

\* The sub-application mounted for version v.
AppOf(v) ==
    CHOOSE e \in Range(parent_routes) : e.kind = "mount" /\ e.prefix = Prefix(v)

\* The keys the bucket of version w writes.
BucketKeys(w) ==
    UNION {{RouteKey(app_routes[i].path, m) : m \in app_routes[i].methods} :
        i \in Range(version_route_mapping[w])}

\* Some version in (v1, v2] defines key.
Redefined(key, v1, v2) ==
    \E w \in DOMAIN version_route_mapping :
        VersionLess(v1, w) /\ ~VersionLess(v2, w) /\ key \in BucketKeys(w)

\* C1: when versions V1 < V2 both define an endpoint for the same path and
\* method, dispatching that path and method through the route list of V2's
\* sub-application reaches an endpoint of V2.
C1_Override ==
    pc = "done" =>
        \A v1 \in DOMAIN version_route_mapping, v2 \in DOMAIN version_route_mapping :
            VersionLess(v1, v2) =>
                \A i \in Range(version_route_mapping[v1]), j \in Range(version_route_mapping[v2]) :
                    app_routes[i].path = app_routes[j].path =>
                        \A m \in app_routes[i].methods \cap app_routes[j].methods :
                            HandleApp(app_routes, AppOf(v2).routes, <<app_routes[j].path>>, m).route
                                \in Range(version_route_mapping[v2])

IsPlain(e) == e.kind = "route"

\* The routes appended unprefixed to the parent, in order.
Unprefixed ==
    LET plain == SelectSeq(parent_routes, IsPlain)
    IN [i \in 1..Len(plain) |-> plain[i].route]

RedirectEmitted ==
    redirect_empty_to_version # None /\ redirect_empty_to_version \in DOMAIN snapshot

\* C3: when redirect_empty_to_version is an emitted version R, the routes
\* appended unprefixed to the parent are the route list of R's sub-application
\* (the accumulated set after R), and every unprefixed path and method resolves
\* as prefix(R) + path does.
C3_RedirectAliasing ==
    (pc = "done" /\ RedirectEmitted) =>
        LET R == redirect_empty_to_version
        IN /\ Unprefixed = AppOf(R).routes
           /\ Unprefixed = Values(snapshot[R])
           /\ \A p \in Paths, m \in Methods :
                HandleParent(app_routes, parent_routes, <<p>>, m)
                    = HandleParent(app_routes, parent_routes, Prefix(R) \o <<p>>, m)

\* C3 witness: the redirect version is emitted with routes, and a later version
\* has changed the accumulated set since.
C3_Witness ==
    /\ pc = "done"
    /\ RedirectEmitted
    /\ Unprefixed # <<>>
    /\ unique_routes # snapshot[redirect_empty_to_version]

\* The resolved versions of the registered routes.
ResolvedVersions ==
    {IF app_routes[i].api_version # None THEN app_routes[i].api_version ELSE default_version :
        i \in 1..Len(app_routes)}

Highest == CHOOSE v \in ResolvedVersions : \A w \in ResolvedVersions : ~VersionLess(v, w)

LatestApp == CHOOSE e \in Range(parent_routes) : e.kind = "mount" /\ e.prefix = <<"/latest">>

\* C4: when enable_latest is true, the sub-application under /latest has the
\* route list of the highest version's sub-application and the highest
\* version's display string.
C4_LatestAliasing ==
    (pc = "done" /\ enable_latest) =>
        /\ \E e \in Range(parent_routes) : e.kind = "mount" /\ e.prefix = <<"/latest">>
        /\ LatestApp.routes = AppOf(Highest).routes
        /\ LatestApp.version = Semver(Highest)
        /\ LatestApp.version = AppOf(Highest).version

\* C4 witness: latest is published over several versions whose route lists differ.
C4_Witness ==
    /\ pc = "done"
    /\ enable_latest
    /\ Cardinality(DOMAIN snapshot) >= 2
    /\ \E v \in DOMAIN snapshot : AppOf(v).routes # LatestApp.routes

C6_RedirectFailsFast ==
    pc = "done" =>
        (redirect_empty_to_version = None \/ redirect_empty_to_version \in ResolvedVersions)

\* C7: filtering an already filtered catalog against the same routes gives the
\* same list.
C7_FilterIdempotent ==
    Len(flt_out) = 2 => flt_out[2] = flt_out[1]

\* C8: the directory document is computed at most once, every call returns the
\* stored document of the first computation, and that document is built from
\* the directory entries only.
C8_SchemaCached ==
    /\ computed <= 1
    /\ returned # None =>
        /\ openapi_schema # None
        /\ returned[1].doc = openapi_schema[1]
        /\ returned[1].doc.id = 1
        /\ returned[1].doc.routes = doc_endpoints
        /\ \A e \in Range(returned[1].doc.routes) : e.endpoint = "doc_endpoint_response"

\* C8 witness: a later call was answered from the stored document, with
\* directory entries in it.
C8_Witness ==
    /\ returned # None
    /\ returned[1].cached
    /\ returned[1].doc.routes # <<>>

\* C9: every route is in exactly one bucket, exactly once, the bucket of its
\* explicit version when it has one and of the default version otherwise, and
\* every bucket keeps the registration order.
C9_VersionResolution ==
    pc # "register" =>
        /\ \A i \in 1..Len(app_routes) :
            LET expect == IF app_routes[i].api_version # None
                          THEN app_routes[i].api_version ELSE default_version
            IN /\ expect \in DOMAIN version_route_mapping
               /\ Cardinality({k \in 1..Len(version_route_mapping[expect]) :
                                  version_route_mapping[expect][k] = i}) = 1
               /\ \A v \in DOMAIN version_route_mapping \ {expect} :
                    i \notin Range(version_route_mapping[v])
        /\ \A v \in DOMAIN version_route_mapping :
            LET b == version_route_mapping[v]
            IN /\ b # <<>>
               /\ \A k \in 1..Len(b) : b[k] \in 1..Len(app_routes)
               /\ \A k, l \in 1..Len(b) : k < l => b[k] < b[l]

\* C9 witness: a tagged and an untagged route share a bucket.
C9_Witness ==
    /\ pc # "register"
    /\ \E v \in DOMAIN version_route_mapping :
        \E i, j \in Range(version_route_mapping[v]) :
            app_routes[i].api_version = None /\ app_routes[j].api_version # None

\* C10: after composition the caller's catalog list is as it was passed.
C10_CatalogUnchanged ==
    pc # "register" => tags_metadata = openapi_tags_in

====
